---- MODULE Spec2Model ----
(***************************************************************************)
(* A model of lansana/antidote: the Antidote orchestrator (Mix, Html,      *)
(* Cure), the three asset-class routines started by cureAssets, the        *)
(* per-element goroutines they start, and the document tree those          *)
(* goroutines mutate without any lock.                                     *)
(*                                                                         *)
(* Strings are TLA+ strings; Go's strings/regexp/url functions are         *)
(* computed on them character by character.  The document is a flat list   *)
(* of sibling elements under one parent node, held as the parent, previous *)
(* and next pointers of golang.org/x/net/html's Node, so that the          *)
(* statements of InsertBefore and RemoveChild, which goquery's AfterHtml   *)
(* and Remove run, can interleave between goroutines.                      *)
(*                                                                         *)
(* Spec is the orchestrator with its goroutines; SpecLive adds the         *)
(* scheduler's fairness; SpecFn applies hasExtension, normalizeSourceUrl   *)
(* and the body of cureImages' goroutine to inputs of their own.           *)
(***************************************************************************)
EXTENDS Integers, Sequences, FiniteSets, TLC

(***************************************************************************)
(* Bounds of the model.                                                    *)
(***************************************************************************)
\* The largest number of link/script/img elements loaded in one run, over all
\* the pages it loads.
MaxElems == 2
\* The largest number of Cure() calls made on the orchestrator.
MaxCures == 2

(***************************************************************************)
(* Go values.                                                              *)
(***************************************************************************)
\* A nil *html.Node.
Nil == 0
\* The parent node of every element of the page.
Root == 1000
\* A nil *Ingredients, a nil *url.URL and a nil error.
NoIngredients == [set |-> FALSE, URL |-> ""]
NilUrl == [set |-> FALSE, Host |-> ""]
NoError == ""

(***************************************************************************)
(* package strings                                                         *)
(***************************************************************************)
CharAt(s, i) == SubSeq(s, i, i)

HasPrefix(s, p) == Len(s) >= Len(p) /\ SubSeq(s, 1, Len(p)) = p

Index(s, sub) ==
    LET hits == {i \in 1..(Len(s) - Len(sub) + 1) : SubSeq(s, i, i + Len(sub) - 1) = sub}
    IN  IF hits = {} THEN 0 ELSE CHOOSE i \in hits : \A j \in hits : i <= j

Contains(s, sub) == Index(s, sub) # 0

RECURSIVE Replace(_, _, _, _)
\* strings.Replace(s, old, new, n) for a non-empty old; n < 0 replaces all.
Replace(s, old, new, n) ==
    LET i == Index(s, old)
    IN  IF n = 0 \/ i = 0
        THEN s
        ELSE SubSeq(s, 1, i - 1) \o new
             \o Replace(SubSeq(s, i + Len(old), Len(s)), old, new, IF n < 0 THEN n ELSE n - 1)

(***************************************************************************)
(* regexp.MatchString for the patterns the program uses: literal           *)
(* characters and ".", which matches any character but a newline.  The     *)
(* match is not anchored.                                                  *)
(***************************************************************************)
MatchString(pattern, src) ==
    \E i \in 0..(Len(src) - Len(pattern)) :
        \A j \in 1..Len(pattern) :
            IF CharAt(pattern, j) = "."
            THEN CharAt(src, i + j) # "\n"
            ELSE CharAt(src, i + j) = CharAt(pattern, j)

\* hasExtension, were it to go on after a match and return the last one.
hasExtensionLast(src, extensions) ==
    LET hits == {i \in 1..Len(extensions) : MatchString(extensions[i], src)}
    IN  IF hits = {}
        THEN [ext |-> "", err |-> NoError]
        ELSE [ext |-> extensions[CHOOSE i \in hits : \A j \in hits : j <= i], err |-> NoError]

RECURSIVE hasExtension(_, _)
\* The first of the extensions, in the order given, that matches src; ""
\* when none does.  The patterns above always compile, so err stays nil.
hasExtension(src, extensions) ==
    IF extensions = <<>>
    THEN [ext |-> "", err |-> NoError]
    ELSE IF MatchString(Head(extensions), src)
         THEN [ext |-> Head(extensions), err |-> NoError]
         ELSE hasExtension(src, Tail(extensions))

(***************************************************************************)
(* net/url: Parse, as far as the program depends on it: whether the        *)
(* reference parses, and its host.                                         *)
(***************************************************************************)
Letters ==
    {"a", "b", "c", "d", "e", "f", "g", "h", "i", "j", "k", "l", "m",
     "n", "o", "p", "q", "r", "s", "t", "u", "v", "w", "x", "y", "z",
     "A", "B", "C", "D", "E", "F", "G", "H", "I", "J", "K", "L", "M",
     "N", "O", "P", "Q", "R", "S", "T", "U", "V", "W", "X", "Y", "Z"}
Digits == {"0", "1", "2", "3", "4", "5", "6", "7", "8", "9"}
HexDigits == Digits \cup {"a", "b", "c", "d", "e", "f", "A", "B", "C", "D", "E", "F"}

\* url.getScheme: the position of the colon ending the scheme, 0 when the
\* string has no scheme, -1 for "missing protocol scheme".
GetScheme(raw) ==
    LET stops == {i \in 1..Len(raw) :
                    /\ CharAt(raw, i) \notin Letters
                    /\ ~(i > 1 /\ CharAt(raw, i) \in Digits \cup {"+", "-", "."})}
        stop  == IF stops = {} THEN 0 ELSE CHOOSE i \in stops : \A j \in stops : i <= j
    IN  IF stop = 0 \/ CharAt(raw, stop) # ":" THEN 0
        ELSE IF stop = 1 THEN -1 ELSE stop

\* url.unescape's "invalid URL escape": a % not followed by two hex digits.
BadEscape(s) ==
    \E i \in 1..Len(s) :
        /\ CharAt(s, i) = "%"
        /\ ~(/\ i + 2 <= Len(s)
             /\ CharAt(s, i + 1) \in HexDigits
             /\ CharAt(s, i + 2) \in HexDigits)

\* The part of s before the first sep, and the part after it.
Before(s, sep) == IF Contains(s, sep) THEN SubSeq(s, 1, Index(s, sep) - 1) ELSE s
After(s, sep) ==
    IF Contains(s, sep) THEN SubSeq(s, Index(s, sep) + Len(sep), Len(s)) ELSE ""

UrlParse(raw) ==
    LET colon     == GetScheme(raw)
        hasScheme == colon > 0
        rest      == Before(IF hasScheme THEN SubSeq(raw, colon + 1, Len(raw)) ELSE raw, "?")
        opaque    == hasScheme /\ ~HasPrefix(rest, "/")
        authority == HasPrefix(rest, "//") /\ (hasScheme \/ ~HasPrefix(rest, "///"))
        host      == IF authority THEN Before(SubSeq(rest, 3, Len(rest)), "/") ELSE ""
        path      == IF authority
                     THEN SubSeq(rest, 3 + Len(host), Len(rest))
                     ELSE rest
        bad       == \/ colon = -1
                     \/ ~opaque /\ ~HasPrefix(rest, "/") /\ Contains(Before(rest, "/"), ":")
                     \/ ~opaque /\ (BadEscape(host) \/ BadEscape(path))
    IN  IF bad
        THEN [set |-> FALSE, Host |-> "", err |-> "parse " \o raw]
        ELSE [set |-> TRUE, Host |-> IF opaque THEN "" ELSE host, err |-> NoError]

addHttpProtocolIfNotExists(url) ==
    IF Contains(url, "http://") \/ Contains(url, "https://")
    THEN url
    ELSE "http://" \o url

normalizeSourceUrl(assetPath, origin) ==
    LET s  == UrlParse(assetPath)
        p1 == IF HasPrefix(assetPath, "//") THEN Replace(assetPath, "//", "", 1) ELSE assetPath
        p2 == Replace(p1, "../", "", -1)
    IN  IF s.err # NoError
        THEN [url |-> "", err |-> s.err]
        ELSE [url |-> IF Len(s.Host) = 0
                      THEN addHttpProtocolIfNotExists(origin.Host \o "/" \o p2)
                      ELSE addHttpProtocolIfNotExists(p2),
              err |-> NoError]

(***************************************************************************)
(* The inputs of the model: the URLs given to Mix, the pages the URL may   *)
(* serve, and what an asset fetch may return.                              *)
(***************************************************************************)
Urls == {"http://b.com", "%"}

Elem(tag, has, val) == [tag |-> tag, has |-> has, val |-> val]

\* link, script and img elements with and without their href/src attribute;
\* references that match their class's extension, that do not, and one that
\* matches and does not parse as a URL.
Elements ==
    {Elem("link", FALSE, ""), Elem("link", TRUE, "/x.css"), Elem("link", TRUE, "x.txt"),
     Elem("link", TRUE, "%.css"),
     Elem("script", FALSE, ""), Elem("script", TRUE, "a.js"),
     Elem("img", FALSE, ""), Elem("img", TRUE, "b.png"), Elem("img", TRUE, "c.svg")}

Pages == UNION {[1..n -> Elements] : n \in 0..MaxElems}

\* Response bodies: plain text, and text that holds end tags.
Bodies == {"a", "a</style></script>b"}

\* What http.Get and ioutil.ReadAll may come back with: a transport error, or a
\* response with its status code and body.  http.Get returns no error for a
\* response whose status is not 2xx.
Response(err, status, body) == [err |-> err, status |-> status, body |-> body]
Responses ==
    {Response("dial tcp: connection refused", 0, "")}
    \cup {Response(NoError, 200, b) : b \in Bodies}
    \cup {Response(NoError, 404, "a")}

\* fetch, given what the transport comes back with.
fetch(resp) ==
    IF resp.err # NoError
    THEN [body |-> "", err |-> resp.err]
    ELSE [body |-> resp.body, err |-> NoError]

(***************************************************************************)
(* The document tree.  Nodes 1..MaxElems are the page's elements, node     *)
(* MaxElems + e is the inline element made for element e and node          *)
(* 2 * MaxElems + e the text that follows it when the fetched text closes  *)
(* the inline element early.                                               *)
(***************************************************************************)
ElemIds == 1..MaxElems
Nodes == 1..(3 * MaxElems)
InlineOf(e) == MaxElems + e
TrailOf(e) == 2 * MaxElems + e

\* a.website before any page is loaded, and after a failed load.
NilDoc ==
    [loaded |-> FALSE,
     tag    |-> [n \in Nodes |-> ""],
     has    |-> [n \in Nodes |-> FALSE],
     val    |-> [n \in Nodes |-> ""],
     text   |-> [n \in Nodes |-> ""],
     parent |-> [n \in Nodes |-> Nil],
     prev   |-> [n \in Nodes |-> Nil],
     next   |-> [n \in Nodes |-> Nil],
     first  |-> Nil,
     last   |-> Nil]

\* goquery.NewDocument on a page: the elements in document order under Root.
NewDocument(p) ==
    LET n == Len(p)
    IN  [loaded |-> TRUE,
         tag    |-> [i \in Nodes |-> IF i <= n THEN p[i].tag ELSE ""],
         has    |-> [i \in Nodes |-> IF i <= n THEN p[i].has ELSE FALSE],
         val    |-> [i \in Nodes |-> IF i <= n THEN p[i].val ELSE ""],
         text   |-> [i \in Nodes |-> ""],
         parent |-> [i \in Nodes |-> IF i <= n THEN Root ELSE Nil],
         prev   |-> [i \in Nodes |-> IF 1 < i /\ i <= n THEN i - 1 ELSE Nil],
         next   |-> [i \in Nodes |-> IF i < n THEN i + 1 ELSE Nil],
         first  |-> IF n > 0 THEN 1 ELSE Nil,
         last   |-> IF n > 0 THEN n ELSE Nil]

RECURSIVE Walk(_, _, _)
\* The nodes met from node n by following NextSibling, as Find and Render do.
Walk(t, n, fuel) ==
    IF n = Nil \/ fuel = 0 THEN <<>> ELSE <<n>> \o Walk(t, t.next[n], fuel - 1)

Children(t) == Walk(t, t.first, 3 * MaxElems)

\* html.EscapeString
EscapeString(s) ==
    Replace(Replace(Replace(Replace(Replace(s, "&", "&amp;", -1), "'", "&#39;", -1),
                            "<", "&lt;", -1), ">", "&gt;", -1), "\"", "&#34;", -1)

AttrName(tag) == IF tag = "link" THEN "href" ELSE "src"

\* html.Render of one node.
Render(t, n) ==
    LET tag  == t.tag[n]
        attr == IF t.has[n]
                THEN " " \o AttrName(tag) \o "=\"" \o EscapeString(t.val[n]) \o "\""
                ELSE ""
    IN  IF tag = "#text" THEN EscapeString(t.text[n])
        ELSE IF tag \in {"link", "img"} THEN "<" \o tag \o attr \o "/>"
        ELSE "<" \o tag \o attr \o ">" \o t.text[n] \o "</" \o tag \o ">"

RECURSIVE RenderAll(_, _)
RenderAll(t, ns) == IF ns = <<>> THEN "" ELSE Render(t, Head(ns)) \o RenderAll(t, Tail(ns))

\* goquery's Selection.Html on the document, when html.Render does not fail.
DocHtml(t) == RenderAll(t, Children(t))

\* html.ParseFragment of fmt.Sprintf("<tag>%s</tag>", source): the element's
\* text ends at the first end tag; text after it becomes a text node, and a
\* stray end tag of a style or script element is dropped.
ParseInline(tag, source) ==
    LET close == "</" \o tag \o ">"
        html  == "<" \o tag \o ">" \o source \o close
        body  == SubSeq(html, Len(tag) + 3, Len(html))
        text  == Before(body, close)
        trail == Replace(Replace(After(body, close), "</style>", "", -1), "</script>", "", -1)
    IN  [text |-> text, trail |-> trail]

(***************************************************************************)
(* State.                                                                  *)
(***************************************************************************)
VARIABLES
    ingredients,  \* Antidote.ingredients
    parsedUrl,    \* Antidote.parsedUrl
    website,      \* Antidote.website: the document tree
    curedHtml,    \* Antidote.curedHtml
    pc,           \* the caller: "idle", "assets" (inside cureAssets) or "crashed"
    rets,         \* what the Cure() calls returned, oldest first
    cures,        \* the number of Cure() calls made
    page,         \* the page the last load returned
    loaded,       \* the number of elements loaded so far
    wgAssets,     \* cureAssets' WaitGroup counter
    rpc,          \* each asset-class routine: "idle", "find", "wait" or "done"
    wg,           \* each routine's WaitGroup counter
    upc,          \* each element's goroutine: its position
    uurl,         \* the URL it fetches
    ustatus,      \* the status code of the response http.Get returned, 0 before
    usrc,         \* the body fetch returned
    unew,         \* the nodes AfterHtml parsed, still to insert
    uold,         \* InsertBefore's oldChild
    uprev,        \* InsertBefore's prev
    call          \* the last call of a helper function made on its own

vars == <<ingredients, parsedUrl, website, curedHtml, pc, rets, cures, page, loaded,
          wgAssets, rpc, wg, upc, uurl, ustatus, usrc, unew, uold, uprev, call>>

antidote == <<ingredients, parsedUrl, website, curedHtml>>
routines == <<wgAssets, rpc, wg>>
locals == <<uurl, ustatus, usrc, unew, uold, uprev>>

Routines == {"css", "js", "img"}
TagOf(r) == IF r = "css" THEN "link" ELSE IF r = "js" THEN "script" ELSE "img"
RoutineOf(tag) == IF tag = "link" THEN "css" ELSE IF tag = "script" THEN "js" ELSE "img"
\* The routine whose goroutine processes element e.
Owner(e) == RoutineOf(website.tag[e])

ErrNotMixed == "Antidote.Mix() must be called before Antidote.Cure()."
ErrLoad == "load"
ErrRender == "render"

NoUnits == [e \in ElemIds |-> "none"]
NoLocals ==
    /\ uurl' = [e \in ElemIds |-> ""]
    /\ ustatus' = [e \in ElemIds |-> 0]
    /\ usrc' = [e \in ElemIds |-> ""]
    /\ unew' = [e \in ElemIds |-> <<>>]
    /\ uold' = [e \in ElemIds |-> Nil]
    /\ uprev' = [e \in ElemIds |-> Nil]

\* No helper function has been called on its own.
NoCall == [fn |-> "", src |-> "", with |-> <<>>, out |-> "", err |-> NoError, again |-> ""]

\* The state of the orchestrator and of its goroutines.
program == <<ingredients, parsedUrl, website, curedHtml, pc, rets, cures, page, loaded,
             wgAssets, rpc, wg, upc, uurl, ustatus, usrc, unew, uold, uprev>>

\* A Cure() call returns r.
Returns(r) == rets' = Append(rets, r)

\* What the last Cure() call returned.
ret == rets[Len(rets)]

\* antidote.New()
Init ==
    /\ ingredients = NoIngredients
    /\ parsedUrl = NilUrl
    /\ website = NilDoc
    /\ curedHtml = ""
    /\ pc = "idle"
    /\ rets = <<>>
    /\ cures = 0
    /\ page = <<>>
    /\ loaded = 0
    /\ wgAssets = 0
    /\ rpc = [r \in Routines |-> "idle"]
    /\ wg = [r \in Routines |-> 0]
    /\ upc = NoUnits
    /\ uurl = [e \in ElemIds |-> ""]
    /\ ustatus = [e \in ElemIds |-> 0]
    /\ usrc = [e \in ElemIds |-> ""]
    /\ unew = [e \in ElemIds |-> <<>>]
    /\ uold = [e \in ElemIds |-> Nil]
    /\ uprev = [e \in ElemIds |-> Nil]
    /\ call = NoCall

(***************************************************************************)
(* The public operations.                                                  *)
(***************************************************************************)
Mix(ing) ==
    /\ pc = "idle"
    /\ ingredients' = ing
    /\ UNCHANGED <<call, parsedUrl, website, curedHtml, pc, rets, cures, page, loaded, routines, upc, locals>>

Html == curedHtml

\* Cure() with no ingredients, were it to clear the stored output before the check.
CureNotMixedClears ==
    /\ pc = "idle" /\ cures < MaxCures
    /\ ~ingredients.set
    /\ curedHtml' = ""
    /\ Returns([doc |-> "", err |-> ErrNotMixed])
    /\ cures' = cures + 1
    /\ UNCHANGED <<call, ingredients, parsedUrl, website, pc, page, loaded, routines, upc, locals>>

\* Cure() with no ingredients.
CureNotMixed ==
    /\ pc = "idle" /\ cures < MaxCures
    /\ ~ingredients.set
    /\ Returns([doc |-> "", err |-> ErrNotMixed])
    /\ cures' = cures + 1
    /\ UNCHANGED <<call, antidote, pc, page, loaded, routines, upc, locals>>

\* Cure() whose URL does not parse.
CureBadUrl ==
    /\ pc = "idle" /\ cures < MaxCures
    /\ ingredients.set
    /\ UrlParse(ingredients.URL).err # NoError
    /\ parsedUrl' = NilUrl
    /\ Returns([doc |-> "", err |-> UrlParse(ingredients.URL).err])
    /\ cures' = cures + 1
    /\ UNCHANGED <<call, ingredients, website, curedHtml, pc, page, loaded, routines, upc, locals>>

\* Cure() whose page does not load, were the failure to unset the ingredients.
CureLoadFailsForGood ==
    /\ pc = "idle" /\ cures < MaxCures
    /\ ingredients.set
    /\ UrlParse(ingredients.URL).err = NoError
    /\ ingredients' = NoIngredients
    /\ parsedUrl' = [set |-> TRUE, Host |-> UrlParse(ingredients.URL).Host]
    /\ website' = NilDoc
    /\ Returns([doc |-> "", err |-> ErrLoad])
    /\ cures' = cures + 1
    /\ UNCHANGED <<call, curedHtml, pc, page, loaded, routines, upc, locals>>

\* Cure() whose page does not load.
CureLoadFails ==
    /\ pc = "idle" /\ cures < MaxCures
    /\ ingredients.set
    /\ UrlParse(ingredients.URL).err = NoError
    /\ parsedUrl' = [set |-> TRUE, Host |-> UrlParse(ingredients.URL).Host]
    /\ website' = NilDoc
    /\ Returns([doc |-> "", err |-> ErrLoad])
    /\ cures' = cures + 1
    /\ UNCHANGED <<call, ingredients, curedHtml, pc, page, loaded, routines, upc, locals>>

\* Cure() up to cureAssets' three go statements.
CureLoads(p) ==
    /\ pc = "idle" /\ cures < MaxCures
    /\ ingredients.set
    /\ UrlParse(ingredients.URL).err = NoError
    /\ parsedUrl' = [set |-> TRUE, Host |-> UrlParse(ingredients.URL).Host]
    /\ website' = NewDocument(p)
    /\ loaded + Len(p) <= MaxElems
    /\ page' = p
    /\ loaded' = loaded + Len(p)
    /\ cures' = cures + 1
    /\ pc' = "assets"
    /\ wgAssets' = 3
    /\ rpc' = [r \in Routines |-> "find"]
    /\ wg' = [r \in Routines |-> 0]
    /\ upc' = NoUnits
    /\ NoLocals
    /\ UNCHANGED <<call, ingredients, curedHtml, rets>>

\* cureAssets' wg.Wait() has returned; the tree is serialized.
CureSerializes ==
    /\ pc = "assets" /\ wgAssets = 0
    /\ curedHtml' = DocHtml(website)
    /\ Returns([doc |-> DocHtml(website), err |-> NoError])
    /\ pc' = "idle"
    /\ UNCHANGED <<call, ingredients, parsedUrl, website, cures, page, loaded, routines, upc, locals>>

\* The same, with html.Render failing: Selection.Html returns "" and the error.
CureSerializeFails ==
    /\ pc = "assets" /\ wgAssets = 0
    /\ curedHtml' = ""
    /\ Returns([doc |-> "", err |-> ErrRender])
    /\ pc' = "idle"
    /\ UNCHANGED <<call, ingredients, parsedUrl, website, cures, page, loaded, routines, upc, locals>>

(***************************************************************************)
(* The asset-class routines cureCSS, cureJS and cureImages.                *)
(***************************************************************************)
\* a.website.Find(tag): the elements with that tag met by walking the tree.
Find(t, tag) == SelectSeq(Children(t), LAMBDA n : t.tag[n] = tag)

InSeq(x, q) == \E i \in 1..Len(q) : q[i] = x

\* Find, wg.Add(Length()) and one go statement for each element found.  With
\* nothing found, wg.Wait() returns at once and the routine is done.
RoutineStarts(r) ==
    /\ pc = "assets" /\ rpc[r] = "find"
    /\ LET found == Find(website, TagOf(r))
       IN  /\ wg' = [wg EXCEPT ![r] = Len(found)]
           /\ upc' = [e \in ElemIds |-> IF InSeq(e, found) THEN "start" ELSE upc[e]]
           /\ rpc' = [rpc EXCEPT ![r] = IF found = <<>> THEN "done" ELSE "wait"]
           /\ wgAssets' = IF found = <<>> THEN wgAssets - 1 ELSE wgAssets
    /\ UNCHANGED <<call, antidote, pc, rets, cures, page, loaded, locals>>

\* The routine, were it to return without waiting for its goroutines.
RoutineJoinsEarly(r) ==
    /\ pc = "assets" /\ rpc[r] = "wait"
    /\ rpc' = [rpc EXCEPT ![r] = "done"]
    /\ wgAssets' = wgAssets - 1
    /\ UNCHANGED <<call, antidote, pc, rets, cures, page, loaded, wg, upc, locals>>

\* The routine's wg.Wait() returns, and the deferred wg.Done() of cureAssets runs.
RoutineJoins(r) ==
    /\ pc = "assets" /\ rpc[r] = "wait" /\ wg[r] = 0
    /\ rpc' = [rpc EXCEPT ![r] = "done"]
    /\ wgAssets' = wgAssets - 1
    /\ UNCHANGED <<call, antidote, pc, rets, cures, page, loaded, wg, upc, locals>>

(***************************************************************************)
(* The goroutine of one element.  Every return runs the deferred           *)
(* wg.Done() of the element's routine.                                     *)
(***************************************************************************)
Running(e, at) == pc = "assets" /\ upc[e] = at

\* The positions at which a goroutine has returned: it had nothing to fetch, its
\* fetch failed, or it changed the tree.
Final == {"skipped", "failed", "cured"}

Finishes(e, how) ==
    /\ upc' = [upc EXCEPT ![e] = how]
    /\ wg' = [wg EXCEPT ![Owner(e)] = @ - 1]

Goes(e, to) ==
    /\ upc' = [upc EXCEPT ![e] = to]
    /\ UNCHANGED wg

\* The extensions hasExtension is given for a link and for a script.
Extensions(tag) == IF tag = "link" THEN <<".css">> ELSE <<".js">>

\* cureCSS and cureJS, from link.Attr to the call of fetch.
UnitPrepares(e) ==
    /\ Running(e, "start")
    /\ website.tag[e] \in {"link", "script"}
    /\ LET matched    == hasExtension(website.val[e], Extensions(website.tag[e]))
           normalized == normalizeSourceUrl(website.val[e], parsedUrl)
       IN  IF /\ website.has[e]
              /\ matched.err = NoError /\ matched.ext # ""
              /\ normalized.err = NoError
           THEN /\ Goes(e, "fetch")
                /\ uurl' = [uurl EXCEPT ![e] = normalized.url]
           ELSE /\ Finishes(e, "skipped")
                /\ UNCHANGED uurl
    /\ UNCHANGED <<call, antidote, pc, rets, cures, page, loaded, wgAssets, rpc, ustatus, usrc, unew, uold, uprev>>

\* fetch returns an error.
FetchFails(e) ==
    /\ Running(e, "fetch")
    /\ \E resp \in Responses : fetch(resp).err # NoError
    /\ Finishes(e, "failed")
    /\ UNCHANGED <<call, antidote, pc, rets, cures, page, loaded, wgAssets, rpc, locals>>

\* fetch returns a body; AfterHtml parses the inline element made from it.
FetchReturns(e, resp) ==
    /\ Running(e, "fetch")
    /\ fetch(resp).err = NoError
    /\ LET source == fetch(resp).body
           inline == IF website.tag[e] = "link" THEN "style" ELSE "script"
           parsed == ParseInline(inline, source)
       IN  /\ website' = [website EXCEPT
                 !.tag[InlineOf(e)] = inline,
                 !.text[InlineOf(e)] = parsed.text,
                 !.tag[TrailOf(e)] = IF parsed.trail = "" THEN "" ELSE "#text",
                 !.text[TrailOf(e)] = parsed.trail]
           /\ unew' = [unew EXCEPT ![e] = IF parsed.trail = ""
                                          THEN <<InlineOf(e)>>
                                          ELSE <<InlineOf(e), TrailOf(e)>>]
    /\ ustatus' = [ustatus EXCEPT ![e] = resp.status]
    /\ usrc' = [usrc EXCEPT ![e] = fetch(resp).body]
    /\ Goes(e, "ins_old")
    /\ UNCHANGED <<call, ingredients, parsedUrl, curedHtml, pc, rets, cures, page, loaded,
                   wgAssets, rpc, uurl, uold, uprev>>

\* The node AfterNodes inserts next: the parsed nodes are inserted last first.
NewChild(e) == unew[e][Len(unew[e])]

\* AfterNodes: sn.Parent.InsertBefore(n, sn.NextSibling) reads sn.NextSibling.
InsertReadsOld(e) ==
    /\ Running(e, "ins_old")
    /\ uold' = [uold EXCEPT ![e] = website.next[e]]
    /\ Goes(e, "ins_prev")
    /\ UNCHANGED <<call, antidote, pc, rets, cures, page, loaded, wgAssets, rpc, uurl, ustatus, usrc, unew, uprev>>

\* InsertBefore: prev, next = oldChild.PrevSibling, oldChild, or prev = n.LastChild.
InsertReadsPrev(e) ==
    /\ Running(e, "ins_prev")
    /\ uprev' = [uprev EXCEPT ![e] = IF uold[e] # Nil
                                     THEN website.prev[uold[e]]
                                     ELSE website.last]
    /\ Goes(e, "ins_linkprev")
    /\ UNCHANGED <<call, antidote, pc, rets, cures, page, loaded, wgAssets, rpc, uurl, ustatus, usrc, unew, uold>>

\* InsertBefore: prev.NextSibling = newChild, or n.FirstChild = newChild.
InsertLinksPrev(e) ==
    /\ Running(e, "ins_linkprev")
    /\ website' = IF uprev[e] # Nil
                  THEN [website EXCEPT !.next[uprev[e]] = NewChild(e)]
                  ELSE [website EXCEPT !.first = NewChild(e)]
    /\ Goes(e, "ins_linknext")
    /\ UNCHANGED <<call, ingredients, parsedUrl, curedHtml, pc, rets, cures, page, loaded,
                   wgAssets, rpc, locals>>

\* InsertBefore: next.PrevSibling = newChild, or n.LastChild = newChild.
InsertLinksNext(e) ==
    /\ Running(e, "ins_linknext")
    /\ website' = IF uold[e] # Nil
                  THEN [website EXCEPT !.prev[uold[e]] = NewChild(e)]
                  ELSE [website EXCEPT !.last = NewChild(e)]
    /\ Goes(e, "ins_setprev")
    /\ UNCHANGED <<call, ingredients, parsedUrl, curedHtml, pc, rets, cures, page, loaded,
                   wgAssets, rpc, locals>>

\* InsertBefore: newChild.Parent = n; newChild.PrevSibling = prev.
InsertSetsPrev(e) ==
    /\ Running(e, "ins_setprev")
    /\ website' = [website EXCEPT !.parent[NewChild(e)] = Root,
                                  !.prev[NewChild(e)] = uprev[e]]
    /\ Goes(e, "ins_setnext")
    /\ UNCHANGED <<call, ingredients, parsedUrl, curedHtml, pc, rets, cures, page, loaded,
                   wgAssets, rpc, locals>>

\* InsertBefore: newChild.NextSibling = next.  Then the next parsed node, or Remove.
InsertSetsNext(e) ==
    /\ Running(e, "ins_setnext")
    /\ website' = [website EXCEPT !.next[NewChild(e)] = uold[e]]
    /\ unew' = [unew EXCEPT ![e] = SubSeq(@, 1, Len(@) - 1)]
    /\ Goes(e, IF Len(unew[e]) > 1 THEN "ins_old" ELSE "rm_first")
    /\ UNCHANGED <<call, ingredients, parsedUrl, curedHtml, pc, rets, cures, page, loaded,
                   wgAssets, rpc, uurl, ustatus, usrc, uold, uprev>>

\* Remove: n.Parent.RemoveChild(n).  if n.FirstChild == c { n.FirstChild = c.NextSibling }
RemoveFixesFirst(e) ==
    /\ Running(e, "rm_first")
    /\ website' = IF website.first = e
                  THEN [website EXCEPT !.first = website.next[e]]
                  ELSE website
    /\ Goes(e, "rm_next")
    /\ UNCHANGED <<call, ingredients, parsedUrl, curedHtml, pc, rets, cures, page, loaded,
                   wgAssets, rpc, locals>>

\* RemoveChild: if c.NextSibling != nil { c.NextSibling.PrevSibling = c.PrevSibling }
RemoveFixesNext(e) ==
    /\ Running(e, "rm_next")
    /\ website' = IF website.next[e] # Nil
                  THEN [website EXCEPT !.prev[website.next[e]] = website.prev[e]]
                  ELSE website
    /\ Goes(e, "rm_last")
    /\ UNCHANGED <<call, ingredients, parsedUrl, curedHtml, pc, rets, cures, page, loaded,
                   wgAssets, rpc, locals>>

\* RemoveChild: if n.LastChild == c { n.LastChild = c.PrevSibling }
RemoveFixesLast(e) ==
    /\ Running(e, "rm_last")
    /\ website' = IF website.last = e
                  THEN [website EXCEPT !.last = website.prev[e]]
                  ELSE website
    /\ Goes(e, "rm_prev")
    /\ UNCHANGED <<call, ingredients, parsedUrl, curedHtml, pc, rets, cures, page, loaded,
                   wgAssets, rpc, locals>>

\* RemoveChild: if c.PrevSibling != nil { c.PrevSibling.NextSibling = c.NextSibling }
RemoveFixesPrev(e) ==
    /\ Running(e, "rm_prev")
    /\ website' = IF website.prev[e] # Nil
                  THEN [website EXCEPT !.next[website.prev[e]] = website.next[e]]
                  ELSE website
    /\ Goes(e, "rm_clearprev")
    /\ UNCHANGED <<call, ingredients, parsedUrl, curedHtml, pc, rets, cures, page, loaded,
                   wgAssets, rpc, locals>>

\* RemoveChild: c.Parent = nil; c.PrevSibling = nil.
RemoveClearsPrev(e) ==
    /\ Running(e, "rm_clearprev")
    /\ website' = [website EXCEPT !.parent[e] = Nil, !.prev[e] = Nil]
    /\ Goes(e, "rm_clearnext")
    /\ UNCHANGED <<call, ingredients, parsedUrl, curedHtml, pc, rets, cures, page, loaded,
                   wgAssets, rpc, locals>>

\* RemoveChild: c.NextSibling = nil.  The goroutine returns.
RemoveClearsNext(e) ==
    /\ Running(e, "rm_clearnext")
    /\ website' = [website EXCEPT !.next[e] = Nil]
    /\ Finishes(e, "cured")
    /\ uold' = [uold EXCEPT ![e] = Nil]
    /\ uprev' = [uprev EXCEPT ![e] = Nil]
    /\ UNCHANGED <<call, ingredients, parsedUrl, curedHtml, pc, rets, cures, page, loaded,
                   wgAssets, rpc, uurl, ustatus, usrc, unew>>

(***************************************************************************)
(* cureImages' goroutine.                                                  *)
(***************************************************************************)
isImageExtension ==
    {"JPEG", "jpeg", "JPG", "jpg", "GIF", "gif", "PNG", "png", "BMP", "bmp", "TIFF", "tiff"}

\* strings.ToLower
ToLower(s) ==
    LET lower == [c \in {"A", "B", "C", "D", "E", "F", "G", "H", "I", "J", "K", "L", "M",
                         "N", "O", "P", "Q", "R", "S", "T", "U", "V", "W", "X", "Y", "Z"} |->
                    CASE c = "A" -> "a" [] c = "B" -> "b" [] c = "C" -> "c" [] c = "D" -> "d"
                      [] c = "E" -> "e" [] c = "F" -> "f" [] c = "G" -> "g" [] c = "H" -> "h"
                      [] c = "I" -> "i" [] c = "J" -> "j" [] c = "K" -> "k" [] c = "L" -> "l"
                      [] c = "M" -> "m" [] c = "N" -> "n" [] c = "O" -> "o" [] c = "P" -> "p"
                      [] c = "Q" -> "q" [] c = "R" -> "r" [] c = "S" -> "s" [] c = "T" -> "t"
                      [] c = "U" -> "u" [] c = "V" -> "v" [] c = "W" -> "w" [] c = "X" -> "x"
                      [] c = "Y" -> "y" [] c = "Z" -> "z"]
        Low[i \in 0..Len(s)] ==
            IF i = 0 THEN ""
            ELSE Low[i - 1] \o (IF CharAt(s, i) \in DOMAIN lower
                                THEN lower[CharAt(s, i)]
                                ELSE CharAt(s, i))
    IN  Low[Len(s)]

\* runtime.makeslice: make([]T, len, cap) panics when len > cap.
MakeSlicePanics(len, cap) == len < 0 \/ len > cap

\* make([]string, len(isImageExtension), 0)
ImgExtensionsPanics == MakeSlicePanics(Cardinality(isImageExtension), 0)

\* An img without a src attribute: the goroutine returns.
ImgSkips(e) ==
    /\ Running(e, "start")
    /\ website.tag[e] = "img"
    /\ ~website.has[e]
    /\ Finishes(e, "skipped")
    /\ UNCHANGED <<call, antidote, pc, rets, cures, page, loaded, wgAssets, rpc, locals>>

\* An img with a src attribute: make panics; the deferred wg.Done() runs and,
\* no goroutine recovering, the panic ends the process.
ImgPanics(e) ==
    /\ Running(e, "start")
    /\ website.tag[e] = "img"
    /\ website.has[e]
    /\ ImgExtensionsPanics
    /\ upc' = [upc EXCEPT ![e] = "panic"]
    /\ wg' = [wg EXCEPT ![Owner(e)] = @ - 1]
    /\ pc' = "crashed"
    /\ UNCHANGED <<call, antidote, rets, cures, page, loaded, wgAssets, rpc, locals>>

\* The keys of isImageExtension as the source lists them, and the orders in
\* which range may visit them: Go randomizes the iteration order of a map.
ImgKeys == <<"JPEG", "jpeg", "JPG", "jpg", "GIF", "gif", "PNG", "png", "BMP", "bmp", "TIFF", "tiff">>
Reverse(q) == [i \in 1..Len(q) |-> q[Len(q) + 1 - i]]
IterationOrders == {ImgKeys, Reverse(ImgKeys)}

\* make([]string, len, cap) when it does not panic: len zero values.
MakeSlice(len, cap) == [i \in 1..len |-> ""]

\* imgExtensions after the range loop has appended "." + k for every key.
ImgExtensions(order) ==
    MakeSlice(Cardinality(isImageExtension), 0) \o [i \in 1..Len(order) |-> "." \o order[i]]

\* The printable ASCII characters below and above the grave accent, and the
\* code of one.
AsciiLow == " !\"#$%&'()*+,-./0123456789:;<=>?@ABCDEFGHIJKLMNOPQRSTUVWXYZ[\\]^_"
AsciiHigh == "abcdefghijklmnopqrstuvwxyz{|}~"
Code(c) == IF Contains(AsciiLow, c) THEN 31 + Index(AsciiLow, c) ELSE 96 + Index(AsciiHigh, c)

Base64Alphabet == "ABCDEFGHIJKLMNOPQRSTUVWXYZabcdefghijklmnopqrstuvwxyz0123456789+/"
Sextet(n) == CharAt(Base64Alphabet, (n % 64) + 1)

RECURSIVE EncodeToString(_)
\* base64.StdEncoding.EncodeToString([]byte(s))
EncodeToString(s) ==
    LET b(i) == Code(CharAt(s, i))
    IN  IF Len(s) = 0 THEN ""
        ELSE IF Len(s) = 1
        THEN Sextet(b(1) \div 4) \o Sextet((b(1) % 4) * 16) \o "=="
        ELSE IF Len(s) = 2
        THEN Sextet(b(1) \div 4) \o Sextet((b(1) % 4) * 16 + b(2) \div 16)
             \o Sextet((b(2) % 16) * 4) \o "="
        ELSE Sextet(b(1) \div 4) \o Sextet((b(1) % 4) * 16 + b(2) \div 16)
             \o Sextet((b(2) % 16) * 4 + b(3) \div 64) \o Sextet(b(3))
             \o EncodeToString(SubSeq(s, 4, Len(s)))

\* The body of cureImages' goroutine for an img with a src attribute: whether
\* it panics, and the value of the src attribute when it returns.
cureImage(src, order, origin, resp) ==
    IF ImgExtensionsPanics
    THEN [panic |-> TRUE, src |-> src]
    ELSE LET matched    == hasExtension(src, ImgExtensions(order))
             normalized == normalizeSourceUrl(src, origin)
             fetched    == fetch(resp)
         IN  [panic |-> FALSE,
              src   |-> IF /\ matched.err = NoError /\ matched.ext # ""
                           /\ normalized.err = NoError
                           /\ fetched.err = NoError
                        THEN "data:image/" \o ToLower(matched.ext) \o ";base64,"
                             \o EncodeToString(fetched.body)
                        ELSE src]

(***************************************************************************)
(* The helper functions called on their own, on references, origins and    *)
(* candidate lists wider than the pages above hold.                        *)
(***************************************************************************)
References ==
    {"/x.css", "x.css", "../x.css", "../../x.css", "....//x.css", "css/../x.css",
     "/a/../x.css", "//c.com/x.css", "//c.com/../x.css", "http://c.com/x.css",
     "https://c.com/x.css", "%.css", ":x.css", "/x.css?v=%zz", "style.CSS?v=1",
     "xcss", "/cssfiles/data.json", "a.js", "b.png", "B.PNG", "a.png?thumb=b.gif",
     "c.svg", ""}

Hosts == {"b.com", "d.org"}

Candidates ==
    {<<>>, <<".css">>, <<".js">>, <<".CSS", ".css">>, <<".png", ".gif">>, <<".gif", ".png">>,
     <<".svg", ".json", ".css">>}

CallNormalizeSourceUrl(assetPath, host) ==
    /\ call' = [fn    |-> "normalizeSourceUrl",
                src   |-> assetPath,
                with  |-> <<host>>,
                out   |-> normalizeSourceUrl(assetPath, [set |-> TRUE, Host |-> host]).url,
                err   |-> normalizeSourceUrl(assetPath, [set |-> TRUE, Host |-> host]).err,
                again |-> ""]
    /\ UNCHANGED program

CallHasExtension(src, extensions) ==
    /\ call' = [fn    |-> "hasExtension",
                src   |-> src,
                with  |-> extensions,
                out   |-> hasExtension(src, extensions).ext,
                err   |-> hasExtension(src, extensions).err,
                again |-> ""]
    /\ UNCHANGED program

\* The goroutine's body run twice on the same img, origin and response, the map
\* visited in one order and then in another.
CallCureImage(src, order, other, host, resp) ==
    LET one == cureImage(src, order, [set |-> TRUE, Host |-> host], resp)
        two == cureImage(src, other, [set |-> TRUE, Host |-> host], resp)
    IN  /\ call' = [fn    |-> "cureImage",
                    src   |-> src,
                    with  |-> <<host, fetch(resp).err, fetch(resp).body>> \o order,
                    out   |-> one.src,
                    err   |-> IF one.panic \/ two.panic
                              THEN "panic: runtime error: makeslice: cap out of range"
                              ELSE NoError,
                    again |-> two.src]
        /\ UNCHANGED program

(***************************************************************************)
(* The specification.                                                      *)
(***************************************************************************)
Ingredients == {NoIngredients} \cup {[set |-> TRUE, URL |-> u] : u \in Urls}

Caller ==
    \/ \E ing \in Ingredients : Mix(ing)
    \/ CureNotMixed
    \/ CureBadUrl
    \/ CureLoadFails
    \/ \E p \in Pages : CureLoads(p)
    \/ CureSerializes
    \/ CureSerializeFails

Goroutines ==
    \/ \E r \in Routines : RoutineStarts(r)
    \/ \E r \in Routines : RoutineJoins(r)
    \/ \E e \in ElemIds : UnitPrepares(e)
    \/ \E e \in ElemIds : FetchFails(e)
    \/ \E e \in ElemIds : \E resp \in Responses : FetchReturns(e, resp)
    \/ \E e \in ElemIds : InsertReadsOld(e)
    \/ \E e \in ElemIds : InsertReadsPrev(e)
    \/ \E e \in ElemIds : InsertLinksPrev(e)
    \/ \E e \in ElemIds : InsertLinksNext(e)
    \/ \E e \in ElemIds : InsertSetsPrev(e)
    \/ \E e \in ElemIds : InsertSetsNext(e)
    \/ \E e \in ElemIds : RemoveFixesFirst(e)
    \/ \E e \in ElemIds : RemoveFixesNext(e)
    \/ \E e \in ElemIds : RemoveFixesLast(e)
    \/ \E e \in ElemIds : RemoveFixesPrev(e)
    \/ \E e \in ElemIds : RemoveClearsPrev(e)
    \/ \E e \in ElemIds : RemoveClearsNext(e)
    \/ \E e \in ElemIds : ImgSkips(e)
    \/ \E e \in ElemIds : ImgPanics(e)

Next == Caller \/ Goroutines

Spec == Init /\ [][Next]_vars

\* The Go scheduler runs every goroutine that can take a step, and the caller
\* returns from Cure() once cureAssets has returned; every fetch returns.
SpecLive ==
    /\ Init /\ [][Next]_vars
    /\ WF_vars(Goroutines)
    /\ WF_vars(CureSerializes \/ CureSerializeFails)

\* The helper functions applied to inputs of their own.
NextFn ==
    \/ \E assetPath \in References : \E host \in Hosts : CallNormalizeSourceUrl(assetPath, host)
    \/ \E src \in References : \E extensions \in Candidates : CallHasExtension(src, extensions)
    \/ \E src \in References : \E order, other \in IterationOrders : \E host \in Hosts :
          \E resp \in Responses : CallCureImage(src, order, other, host, resp)

SpecFn == Init /\ [][NextFn]_vars

(***************************************************************************)
(* Vocabulary of the properties.                                           *)
(***************************************************************************)
Count(q, x) == Cardinality({i \in 1..Len(q) : q[i] = x})

\* The last Cure() call loaded a page, ran cureAssets and serialized the tree.
Serialized ==
    /\ pc = "idle" /\ rets # <<>>
    /\ website.loaded
    /\ ret.err \in {NoError, ErrRender}

\* The document of the most recent Cure() that succeeded.
LastCured ==
    LET good == {i \in 1..Len(rets) : rets[i].err = NoError}
    IN  IF good = {} THEN "" ELSE rets[CHOOSE i \in good : \A j \in good : j <= i].doc

\* Parent, child and sibling links agree with each other.
Consistent(t) ==
    LET c == Children(t)
    IN  /\ t.last = (IF c = <<>> THEN Nil ELSE c[Len(c)])
        /\ \A i \in 1..Len(c) :
              /\ t.parent[c[i]] = Root
              /\ t.prev[c[i]] = (IF i = 1 THEN Nil ELSE c[i - 1])
              /\ Count(c, c[i]) = 1
        /\ \A n \in Nodes : t.parent[n] = Root => Count(c, n) = 1

\* The element is one its routine fetches when it finds it.
Curable(el, origin) ==
    /\ el.tag \in {"link", "script"}
    /\ el.has
    /\ hasExtension(el.val, Extensions(el.tag)).ext # ""
    /\ normalizeSourceUrl(el.val, origin).err = NoError

\* The element of the page a node stands for: itself, or the element it replaced.
Slot(n) == IF n <= MaxElems THEN n ELSE IF n <= 2 * MaxElems THEN n - MaxElems ELSE n - 2 * MaxElems

\* The inline node of element e stands where e stood among its siblings.
InPlace(c, e) ==
    \A i, j \in 1..Len(c) :
        c[i] = InlineOf(e) =>
            /\ j < i => Slot(c[j]) < e
            /\ j > i => Slot(c[j]) > e \/ c[j] = TrailOf(e)

\* The element carries its href/src attribute and the attribute matches one of
\* its class's extensions.
Matches(el) ==
    /\ el.has
    /\ IF el.tag = "img"
       THEN \E k \in isImageExtension : MatchString("." \o k, el.val)
       ELSE \E i \in 1..Len(Extensions(el.tag)) : MatchString(Extensions(el.tag)[i], el.val)

\* The subtype README.md shows for an image: the extension's letters, lower case.
ImageSubtypes(src) == {ToLower(x) : x \in {y \in isImageExtension : MatchString("." \o y, src)}}

(***************************************************************************)
(* C1.  Cure() on an orchestrator without ingredients returns an error and *)
(* no document and changes nothing else: the ingredients stay unset, the   *)
(* parsed URL, the tree and the stored cured output are unchanged, no page *)
(* is loaded and no goroutine is started.                                  *)
(***************************************************************************)
C1_CureBeforeMix ==
    [][(pc = "idle" /\ ~ingredients.set /\ cures' = cures + 1) =>
          /\ rets' = Append(rets, [doc |-> "", err |-> ErrNotMixed])
          /\ ErrNotMixed # NoError
          /\ ~ingredients'.set
          /\ pc' = "idle"
          /\ UNCHANGED <<parsedUrl, website, curedHtml, page, loaded, routines, upc, locals>>]_vars

\* A Cure() that failed for want of ingredients, followed by Mix() and a Cure()
\* that returned the cured page.
C1_Witness ==
    /\ pc = "idle" /\ Len(rets) = 2
    /\ rets[1].err = ErrNotMixed
    /\ rets[2].err = NoError /\ rets[2].doc # "" /\ Html = rets[2].doc
    /\ \E e \in ElemIds : upc[e] = "cured"

(***************************************************************************)
(* C2.  Every Cure() call returns: either a document and no error, or the  *)
(* empty string and an error, and the error is one of missing              *)
(* configuration, URL parse failure, page load failure and serialization   *)
(* failure.  No Cure() call ends without returning.                        *)
(***************************************************************************)
C2_TwoOutcomes ==
    /\ pc # "crashed"
    /\ \A i \in 1..Len(rets) :
          /\ rets[i].err # NoError => rets[i].doc = ""
          /\ rets[i].err \in {NoError, ErrNotMixed, ErrLoad, ErrRender}
                             \cup {UrlParse(u).err : u \in Urls}

(***************************************************************************)
(* C3.  Between Cure() calls, Html() is the document of the most recent    *)
(* Cure() that succeeded, or "" when none has succeeded.                   *)
(***************************************************************************)
C3_HtmlIsLastCured == pc = "idle" => Html = LastCured

(***************************************************************************)
(* C4.  In the tree Cure() serializes, an element whose goroutine fetched  *)
(* its asset is replaced by its inline element, once, and an element whose *)
(* goroutine stopped short of that is in the tree as it was loaded.        *)
(***************************************************************************)
C4_MutatedOnceOrUntouched ==
    Serialized =>
        \A e \in 1..Len(page) :
            LET c == Children(website)
            IN  /\ upc[e] = "cured" => Count(c, e) = 0 /\ Count(c, InlineOf(e)) = 1
                /\ upc[e] \in {"skipped", "failed"} =>
                      /\ Count(c, e) = 1
                      /\ Elem(website.tag[e], website.has[e], website.val[e]) = page[e]

(***************************************************************************)
(* C5.  A goroutine that has started and not yet returned is never stopped *)
(* by what happens in another goroutine: the process is still inside       *)
(* cureAssets, where it can run to its own outcome.                        *)
(***************************************************************************)
C5_FailureIsolated ==
    \A e \in ElemIds : upc[e] \notin Final \cup {"none"} => pc = "assets"

(***************************************************************************)
(* C6.  In the tree Cure() serializes, a link or script whose fetch        *)
(* succeeded is gone, and its inline style or script element is there      *)
(* once, where the original stood, with the fetched text as its content.   *)
(***************************************************************************)
C6_InlinedInPlace ==
    Serialized =>
        \A e \in 1..Len(page) :
            upc[e] = "cured" =>
                LET c == Children(website)
                IN  /\ Count(c, e) = 0
                    /\ Count(c, InlineOf(e)) = 1
                    /\ website.tag[InlineOf(e)] = (IF page[e].tag = "link" THEN "style" ELSE "script")
                    /\ website.text[InlineOf(e)] = usrc[e]
                    /\ InPlace(c, e)

(***************************************************************************)
(* C7.  An img whose src matches an image extension and whose goroutine    *)
(* has ended without a failed fetch is in the tree with a src of           *)
(* data:image/<ext>;base64,... where <ext> is the matched extension in     *)
(* lower case.                                                             *)
(***************************************************************************)
C7_ImageDataUrl ==
    \A e \in 1..Len(page) :
        (/\ page[e].tag = "img" /\ page[e].has
         /\ ImageSubtypes(page[e].val) # {}
         /\ upc[e] \notin {"none", "start", "fetch", "failed"}) =>
            /\ Count(Children(website), e) = 1
            /\ \E x \in ImageSubtypes(page[e].val) :
                  HasPrefix(website.val[e], "data:image/" \o x \o ";base64,")

(***************************************************************************)
(* C8.  When every element of the page is a curable link or script and     *)
(* every one of their goroutines has fetched its asset and made its        *)
(* insert-after and remove, the tree Cure() serializes holds none of the   *)
(* original elements, holds each inline element once, and its parent,      *)
(* child and sibling links are consistent.                                 *)
(***************************************************************************)
C8_AllReplacedConsistently ==
    (/\ Serialized
     /\ \A e \in 1..Len(page) : Curable(page[e], parsedUrl) /\ upc[e] = "cured") =>
        /\ \A e \in 1..Len(page) :
              /\ Count(Children(website), e) = 0
              /\ Count(Children(website), InlineOf(e)) = 1
        /\ Consistent(website)

(***************************************************************************)
(* C9.  A routine is done only when every goroutine it started has         *)
(* returned; Cure() serializes only when all three routines are done and   *)
(* every goroutine has returned; and the tree does not change in the       *)
(* serializing step nor between Cure() calls.                              *)
(***************************************************************************)
C9_JoinBeforeSerialize ==
    /\ [](\A r \in Routines : rpc[r] = "done" =>
              \A e \in ElemIds : (upc[e] # "none" /\ Owner(e) = r) => upc[e] \in Final)
    /\ [][(pc = "assets" /\ pc' = "idle") =>
              /\ \A r \in Routines : rpc[r] = "done"
              /\ \A e \in ElemIds : upc[e] \in Final \cup {"none"}
              /\ website' = website]_vars
    /\ [][(pc = "idle" /\ cures' = cures) => website' = website]_vars

\* Cure() has returned a document after two goroutines changed the tree.
C9_Witness ==
    /\ pc = "idle" /\ rets # <<>> /\ ret.err = NoError
    /\ Serialized
    /\ \A e \in ElemIds : upc[e] = "cured"

(***************************************************************************)
(* C10.  Once the page is loaded, Cure() eventually returns.               *)
(***************************************************************************)
C10_CureReturns == (pc = "assets") ~> (pc = "idle")

(***************************************************************************)
(* C11.  A goroutine whose fetch received a response with a status outside *)
(* 200..299 has failed: it made no inline element and its element is in    *)
(* the tree with the tag and attribute it was loaded with.                 *)
(***************************************************************************)
C11_NonSuccessStatusFails ==
    \A e \in 1..Len(page) :
        (ustatus[e] # 0 /\ ustatus[e] \notin 200..299) =>
            /\ upc[e] = "failed"
            /\ unew[e] = <<>> /\ website.tag[InlineOf(e)] = ""
            /\ Elem(website.tag[e], website.has[e], website.val[e]) = page[e]

(***************************************************************************)
(* C12.  normalizeSourceUrl on a reference that parses, has no host, begins *)
(* with one slash and holds no ../ returns http:// followed by the origin's *)
(* host and the reference: /x.css with the host b.com gives                 *)
(* http://b.com/x.css.                                                      *)
(***************************************************************************)
C12_OneSeparator ==
    (/\ call.fn = "normalizeSourceUrl" /\ call.err = NoError
     /\ HasPrefix(call.src, "/") /\ ~HasPrefix(call.src, "//")
     /\ ~Contains(call.src, "../") /\ ~Contains(call.src, "http")) =>
        call.out = "http://" \o call.with[1] \o call.src

(***************************************************************************)
(* C13.  hasExtension returns the first of its candidates, in the order    *)
(* they are given, that matches somewhere in the reference, and "" when    *)
(* none matches.  Letters match in their own case only: the letters of the *)
(* candidate returned stand in the reference as they are, and              *)
(* style.CSS?v=1 against .css alone gives "".                              *)
(***************************************************************************)
C13_FirstMatchInOrder ==
    call.fn = "hasExtension" =>
        LET hits == {i \in 1..Len(call.with) : MatchString(call.with[i], call.src)}
        IN  /\ call.err = NoError
            /\ hits = {} => call.out = ""
            /\ hits # {} => call.out = call.with[CHOOSE i \in hits : \A j \in hits : i <= j]
            /\ call.out # "" => Contains(call.src, SubSeq(call.out, 2, Len(call.out)))
            /\ (call.src = "style.CSS?v=1" /\ call.with = <<".css">>) => call.out = ""

\* Two candidates match; the one returned is the first of the candidates, which
\* is not the one that stands first in the reference.
C13_Witness ==
    /\ call.fn = "hasExtension"
    /\ call.src = "a.png?thumb=b.gif"
    /\ call.with = <<".gif", ".png">>
    /\ call.out = ".gif"

(***************************************************************************)
(* C14.  While and after Cure() works on a page none of whose elements     *)
(* both carries its href/src attribute and matches its class's extensions, *)
(* no goroutine fetches, panics or changes the tree, and the document      *)
(* Cure() returns is the serialization of the tree as it was loaded.       *)
(***************************************************************************)
C14_NothingToCure ==
    (/\ website.loaded
     /\ \A e \in 1..Len(page) : ~Matches(page[e])) =>
        /\ pc # "crashed"
        /\ \A e \in ElemIds : upc[e] \in {"none", "start", "skipped"}
        /\ website = NewDocument(page)
        /\ (pc = "idle" /\ ret.err = NoError) => ret.doc = DocHtml(NewDocument(page))

(***************************************************************************)
(* C15.  When Cure() has returned a document and every element of the page *)
(* that carried a matching href/src has been replaced by its goroutine,    *)
(* the tree that was serialized holds no element that a second cure would  *)
(* select: no link, script or img with a matching href/src.                *)
(***************************************************************************)
C15_CuredOutputHasNothingToCure ==
    (/\ Serialized /\ ret.err = NoError
     /\ \A e \in 1..Len(page) : Matches(page[e]) => upc[e] = "cured") =>
        \A i \in 1..Len(Children(website)) :
            LET n == Children(website)[i]
            IN  ~Matches(Elem(website.tag[n], website.has[n], website.val[n]))

(***************************************************************************)
(* C16.  A step of the goroutine of element e, from its start to its       *)
(* return, writes no field of another element of the page: the tag, the    *)
(* attribute and the parent and sibling links of every other element are   *)
(* after the step what they were before it.                                *)
(***************************************************************************)
C16_OwnElementOnly ==
    [][\A e \in ElemIds : \A n \in 1..Len(page) :
          (/\ pc = "assets" /\ upc[e] \notin {"none"} \cup Final
           /\ upc'[e] # upc[e]
           /\ n # e) =>
              /\ website'.tag[n] = website.tag[n]
              /\ website'.has[n] = website.has[n]
              /\ website'.val[n] = website.val[n]
              /\ website'.parent[n] = website.parent[n]
              /\ website'.prev[n] = website.prev[n]
              /\ website'.next[n] = website.next[n]]_vars

(***************************************************************************)
(* C17.  The string normalizeSourceUrl returns for a reference that parses *)
(* holds no ../ anywhere, and ../../x.css with the host b.com gives        *)
(* http://b.com/x.css.                                                     *)
(***************************************************************************)
C17_NoTraversalLeft ==
    (call.fn = "normalizeSourceUrl" /\ call.err = NoError) =>
        /\ ~Contains(call.out, "../")
        /\ (call.src = "../../x.css" /\ call.with = <<"b.com">>) => call.out = "http://b.com/x.css"

(***************************************************************************)
(* C18.  A routine starts one goroutine for each element its Find returns, *)
(* with or without the attribute, and counts as many in its WaitGroup; no  *)
(* goroutine starts otherwise; and nothing keeps a started goroutine from  *)
(* its fetch: the goroutine of an element of any class that carries a      *)
(* matching reference which normalizes is, once it has left its start,     *)
(* inside its fetch or past it.                                            *)
(***************************************************************************)
C18_OneUnitEachNoCap ==
    /\ [][\A r \in Routines :
              (rpc[r] = "find" /\ rpc'[r] # "find" /\ pc' = "assets") =>
                  LET found == Find(website, TagOf(r))
                  IN  /\ wg'[r] = Len(found)
                      /\ \A e \in ElemIds :
                            IF InSeq(e, found)
                            THEN upc[e] = "none" /\ upc'[e] = "start" /\ Count(found, e) = 1
                            ELSE upc'[e] = upc[e]]_vars
    /\ [][\A e \in ElemIds :
              (upc[e] = "none" /\ upc'[e] # "none") => rpc[RoutineOf(website.tag[e])] = "find"]_vars
    /\ [](\A e \in 1..Len(page) :
              (/\ website.loaded
               /\ Matches(page[e])
               /\ normalizeSourceUrl(page[e].val, parsedUrl).err = NoError
               /\ upc[e] \notin {"none", "start"}) =>
                  upc[e] \notin {"skipped", "panic"})

(***************************************************************************)
(* C19, as claimed.  Once a Cure() call has returned a URL parse, page     *)
(* load or serialization error, no later Cure() call returns a document.   *)
(***************************************************************************)
C19_FailedIsTerminal ==
    \A i, j \in 1..Len(rets) :
        (i < j /\ rets[i].err \notin {NoError, ErrNotMixed}) => rets[j].err # NoError

(***************************************************************************)
(* C19, amended.  A failure ends only the Cure() call that returns it.  A  *)
(* Cure() call leaves the ingredients as they are, whatever it returns,    *)
(* and what it does is decided by the ingredients in place and its own URL *)
(* parse and page load, not by what earlier calls returned: it returns the *)
(* configuration error when there are none, the parse error when the URL   *)
(* does not parse, and otherwise loads the page or returns the load error. *)
(***************************************************************************)
C19_FailureEndsOnlyItsCall ==
    /\ [][cures' = cures + 1 =>
              /\ ingredients' = ingredients
              /\ ~ingredients.set =>
                    rets' = Append(rets, [doc |-> "", err |-> ErrNotMixed])
              /\ (ingredients.set /\ UrlParse(ingredients.URL).err # NoError) =>
                    rets' = Append(rets, [doc |-> "", err |-> UrlParse(ingredients.URL).err])
              /\ (ingredients.set /\ UrlParse(ingredients.URL).err = NoError) =>
                    \/ pc' = "assets" /\ rets' = rets /\ website'.loaded
                    \/ rets' = Append(rets, [doc |-> "", err |-> ErrLoad])]_vars
    /\ [][Len(rets') > Len(rets) => ingredients' = ingredients]_vars

\* A Cure() that failed to parse the URL or to load the page, and a later Cure()
\* on the same orchestrator that returned a document.
C19_Witness ==
    /\ Len(rets) = 2
    /\ rets[1].err \notin {NoError, ErrNotMixed}
    /\ rets[2].err = NoError /\ rets[2].doc # ""
    /\ Html = rets[2].doc

====
